---------------------------- MODULE Spec2Model ----------------------------
(***************************************************************************)
(* A model of app/views/__init__.py: the request pipeline of BaseView      *)
(* (method resolution, pre_process_request, handler, error conversion),    *)
(* the generic list/detail handlers and the paginator of PaginateMixin.    *)
(*                                                                         *)
(* Two specifications are given.  Spec is the pipeline: concurrent         *)
(* request tasks that interleave at the awaits of the code, over one       *)
(* store.  SpecPaginate applies paginate_result to inputs drawn from       *)
(* bounded sets.                                                           *)
(***************************************************************************)
EXTENDS Integers, Sequences, FiniteSets, TLC

(***************************************************************************)
(* Bounds of the model.                                                    *)
(***************************************************************************)
MaxPage == 10
MaxPageSize == 3
MaxCount == 25
NumTasks == 2
MaxRequests == 2

(***************************************************************************)
(* Values.  A query value is a string, kept as its sequence of characters  *)
(* so that int() and str() are computed and not assumed; a value the code  *)
(* stores into the MultiDict may also be an int.                           *)
(***************************************************************************)
None == [k |-> "None"]

StrV(s) == [k |-> "str", s |-> s]

IntV(n) == [k |-> "int", n |-> n]

DigitChars == <<"0", "1", "2", "3", "4", "5", "6", "7", "8", "9">>

DigitOf(c) == (CHOOSE i \in 1..10 : DigitChars[i] = c) - 1

IsDigit(c) == \E i \in 1..10 : DigitChars[i] = c

RECURSIVE DigitsValue(_)
DigitsValue(s) ==
    IF s = <<>> THEN 0
    ELSE 10 * DigitsValue(SubSeq(s, 1, Len(s) - 1)) + DigitOf(s[Len(s)])

\* int(v): v is an int already, or a string of an optional minus sign and
\* digits; anything else is a ValueError.
ParseInt(v) ==
    IF v.k = "int" THEN [ok |-> TRUE, n |-> v.n]
    ELSE LET s == v.s
             neg == s # <<>> /\ s[1] = "-"
             body == IF neg THEN Tail(s) ELSE s
         IN  IF body # <<>> /\ \A i \in 1..Len(body) : IsDigit(body[i])
             THEN [ok |-> TRUE,
                   n |-> IF neg THEN 0 - DigitsValue(body) ELSE DigitsValue(body)]
             ELSE [ok |-> FALSE, n |-> 0]

RECURSIVE NatStr(_)
NatStr(n) ==
    IF n < 10 THEN <<DigitChars[n + 1]>>
    ELSE NatStr(n \div 10) \o <<DigitChars[(n % 10) + 1]>>

\* str(n) of an int.
IntStr(n) == IF n < 0 THEN <<"-">> \o NatStr(0 - n) ELSE NatStr(n)

(***************************************************************************)
(* MultiDict: a sequence of <<key, value>> pairs.                          *)
(***************************************************************************)
RECURSIVE MDGet(_, _, _)
MDGet(md, key, default) ==
    IF md = <<>> THEN default
    ELSE IF md[1][1] = key THEN md[1][2]
    ELSE MDGet(Tail(md), key, default)

RECURSIVE MDWithout(_, _)
MDWithout(md, key) ==
    IF md = <<>> THEN <<>>
    ELSE IF md[1][1] = key THEN MDWithout(Tail(md), key)
    ELSE <<md[1]>> \o MDWithout(Tail(md), key)

\* md[key] = value: the first pair of that key is replaced in place and the
\* later ones are removed; a key not present is appended.  The variant
\* appends the pair whatever the multidict holds, as md.add(key, value).
MDAdd(md, key, value) == md \o <<<<key, value>>>>

RECURSIVE MDSet(_, _, _)
MDSet(md, key, value) ==
    IF md = <<>> THEN <<<<key, value>>>>
    ELSE IF md[1][1] = key THEN <<<<key, value>>>> \o MDWithout(Tail(md), key)
    ELSE <<md[1]>> \o MDSet(Tail(md), key, value)

(***************************************************************************)
(* PaginateMixin.                                                          *)
(***************************************************************************)
page_size_default == 10

\* with_query(params): every value is rendered as a string.
WithQuery(params) ==
    [i \in 1..Len(params) |->
        <<params[i][1],
          IF params[i][2].k = "int" THEN StrV(IntStr(params[i][2].n))
          ELSE params[i][2]>>]

\* The values are strings and ints, which lines 101-105 leave as they are.
get_request_url(params) ==
    [k |-> "url", scheme |-> "http", host |-> "host", path |-> "/resource",
     query |-> WithQuery(params)]

\* The page the previous link is given (lines 87-90).  The variant clamps
\* without the test of count.
PreviousPageAnyCount(page, page_size, count) ==
    IF (page_size * (page - 1)) > count
    THEN (count \div page_size) + 1
    ELSE page - 1

\* Another variant clamps one page further.
PreviousPageClampedLate(page, page_size, count) ==
    IF (page_size * (page - 1)) > count /\ count # 0
    THEN (count \div page_size) + 2
    ELSE page - 1

PreviousPage(page, page_size, count) ==
    IF (page_size * (page - 1)) > count /\ count # 0
    THEN (count \div page_size) + 1
    ELSE page - 1

\* Whether a next link is given (line 93).  The variant compares with <=.
HasNextInclusive(page, page_size, count) == (page * page_size) <= count

HasNext(page, page_size, count) == (page * page_size) < count

NextPage(page) == page + 1

\* Lines 78-83: the envelope.  The variant counts the items it is given.
EnvelopeCountingItems(count, next, previous, result) ==
    [count |-> Len(result), next |-> next, previous |-> previous, result |-> result]

Envelope(count, next, previous, result) ==
    [count |-> count, next |-> next, previous |-> previous, result |-> result]

\* Line 85: a previous link is built when the page is after the first.
\* The variant builds one for the first page too.
HasPreviousFromFirst(page) == page >= 1

HasPrevious(page) == page > 1

paginate_result(query, result, count) ==
    LET query_params == query
        page == ParseInt(MDGet(query_params, "page", IntV(1)))
        page_size == ParseInt(MDGet(query_params, "page_size", IntV(page_size_default)))
    IN  IF ~page.ok \/ ~page_size.ok
        THEN [raised |-> "ValueError", response |-> None]
        ELSE LET params1 == IF HasPrevious(page.n)
                            THEN MDSet(query_params, "page",
                                       IntV(PreviousPage(page.n, page_size.n, count)))
                            ELSE query_params
                 previous == IF HasPrevious(page.n) THEN get_request_url(params1) ELSE None
                 has_next == HasNext(page.n, page_size.n, count)
                 params2 == IF has_next
                            THEN MDSet(params1, "page", IntV(NextPage(page.n)))
                            ELSE params1
                 next == IF has_next THEN get_request_url(params2) ELSE None
             IN  [raised |-> "none",
                  response |-> Envelope(count, next, previous, result)]

\* The page a link points to.
LinkPage(url) == ParseInt(MDGet(url.query, "page", StrV(<<>>))).n

(***************************************************************************)
(* Requests.  The body is raw text; json_loads is json.loads on the texts  *)
(* the model sends.  A parsed object is a function of its keys.            *)
(***************************************************************************)
METH_ALL == {"CONNECT", "HEAD", "GET", "DELETE", "OPTIONS", "PATCH", "POST", "PUT", "TRACE"}

\* Line 17: the methods whose body is read.  The variant leaves PATCH out.
BodyMethodsNoPatch == {"POST", "PUT", "DELETE"}

BodyMethods == {"POST", "PUT", "PATCH", "DELETE"}

\* The methods the model sends: with and without a body, with and
\* without a handler, and one that is no HTTP method aiohttp knows.
Methods == {"GET", "POST", "PATCH", "DELETE", "HEAD", "PROPFIND"}

Views == {"GenericListView", "GenericDetailView"}

FieldNames == {"a", "b"}

Bodies == {"", "{", "[1]", "{\"a\": 1}", "{\"a\": \"x\"}"}

json_loads(text) ==
    CASE text = "{" -> [ok |-> FALSE, value |-> None]
      [] text = "[1]" -> [ok |-> TRUE, value |-> [k |-> "list", d |-> <<IntV(1)>>]]
      [] text = "{\"a\": 1}" ->
            [ok |-> TRUE, value |-> [k |-> "dict", d |-> [f \in {"a"} |-> IntV(1)]]]
      [] text = "{\"a\": \"x\"}" ->
            [ok |-> TRUE, value |-> [k |-> "dict", d |-> [f \in {"a"} |-> StrV(<<"x">>)]]]

EmptyDict == [k |-> "dict", d |-> <<>>]

Queries ==
    { <<>>,
      << <<"a", StrV(<<"0">>)>>, <<"page", StrV(<<"2">>)>>, <<"page_size", StrV(<<"1">>)>> >>,
      << <<"page", StrV(<<"x">>)>> >>,
      << <<"b", StrV(<<"y">>)>> >> }

MultiDictKeys(md) == {md[i][1] : i \in 1..Len(md)}

(***************************************************************************)
(* Schema.load of a schema that declares the integer fields FieldNames:    *)
(* undeclared keys are dropped, a value that is no integer is a field      *)
(* error, an input that is no mapping is a schema error.                   *)
(***************************************************************************)
LoadFields(values) ==
    LET declared == DOMAIN values \cap FieldNames
        good == {f \in declared : ParseInt(values[f]).ok}
    IN  [errors |-> [f \in declared \ good |-> "Not a valid integer."],
         data |-> [f \in good |-> ParseInt(values[f]).n]]

Load(data) ==
    CASE data.k = "dict" -> LoadFields(data.d)
      [] data.k = "multidict" ->
            LoadFields([f \in MultiDictKeys(data.md) |-> MDGet(data.md, f, None)])
      [] OTHER ->
            [errors |-> [f \in {"_schema"} |-> "Invalid input type."], data |-> <<>>]

(***************************************************************************)
(* app.exceptions: the errors the pipeline converts to their response.     *)
(***************************************************************************)
BaseAPIException == {"APIException", "NotFound", "ProcessingError"}

NoOutcome == [via |-> "none", exc |-> "none", status |-> 0, body |-> None, allow |-> {}]

Returned(status, body) ==
    [via |-> "return", exc |-> "none", status |-> status, body |-> body, allow |-> {}]

\* An exception, with the response it was built with (status 0: none).
Exc(exc, status, body) == [exc |-> exc, status |-> status, body |-> body]

APIException(details, status_code) == Exc("APIException", status_code, details)

NotFound == Exc("NotFound", 404, None)

ProcessingError(details) ==
    Exc("ProcessingError", 400, [k |-> "error", details |-> details])

ValueError == Exc("ValueError", 0, None)

\* An exception that leaves _iter; HTTPMethodNotAllowed is itself a response.
Raised(exc, status, allow) ==
    [via |-> "raise", exc |-> exc, status |-> status, body |-> None, allow |-> allow]

(***************************************************************************)
(* app.models: the store of the domain model.                              *)
(***************************************************************************)
\* The ids the store can come to hold: an object it starts with and one per
\* request.
Ids == 1..(MaxRequests + 1)

Present(st) == {i \in Ids : st[i] # None}

\* An object is kept as [k |-> "obj", f |-> its fields].
Obj(fields) == [k |-> "obj", f |-> fields]

get_by_id(st, id) == IF id \in Ids THEN st[id] ELSE None

Matches(o, filters) ==
    \A f \in DOMAIN filters : f \in DOMAIN o.f /\ o.f[f] = filters[f]

RECURSIVE IdsInOrder(_)
IdsInOrder(S) ==
    IF S = {} THEN <<>>
    ELSE LET m == CHOOSE x \in S : \A y \in S : x <= y
         IN  <<m>> \o IdsInOrder(S \ {m})

get_list(st, filters) ==
    LET ids == IdsInOrder({i \in Present(st) : Matches(st[i], filters)})
    IN  [i \in 1..Len(ids) |-> [id |-> ids[i], fields |-> st[ids[i]].f]]

get_count(st, filters) ==
    Cardinality({i \in Present(st) : Matches(st[i], filters)})

NewId(st) == Cardinality(Present(st)) + 1

\* instance.save(db): a new instance is given the next id.
save(st, instance) ==
    LET id == IF instance.id = 0 THEN NewId(st) ELSE instance.id
    IN  [st |-> [st EXCEPT ![id] = Obj(instance.fields)],
         instance |-> [instance EXCEPT !.id = id]]

\* response_serializer.dump(instance).
dump(instance) == [id |-> instance.id, fields |-> instance.fields]

(***************************************************************************)
(* State.                                                                  *)
(*   store     the objects of the domain model, by id                      *)
(*   task      the request each task is handling and how far it is         *)
(*   nreq      the requests received so far                                *)
(*   ver       the writes made to the store so far                         *)
(*   updates   the latest successful updates made in succession: each      *)
(*             fetched its object after the one before it was saved, with  *)
(*             no other write to the store in between (at most two kept)   *)
(*   created   for each id a create made and no update has written since,  *)
(*             the body of the create response                             *)
(*   pg        the input and the result of paginate_result (SpecPaginate)  *)
(***************************************************************************)
VARIABLES store, task, nreq, ver, updates, created, pg

vars == <<store, task, nreq, ver, updates, created, pg>>

Tasks == 1..NumTasks

IdleTask ==
    [pc |-> "idle", view |-> "none", method |-> "none",
     body |-> [read |-> FALSE, text |-> ""],
     query |-> [read |-> FALSE, md |-> <<>>],
     id |-> 0,
     fetched |-> [done |-> FALSE, obj |-> None],
     loaded |-> None,
     validated_data |-> [set |-> FALSE, data |-> <<>>],
     instance |-> [id |-> 0, fields |-> <<>>],
     items |-> <<>>,
     saw |-> 0,
     between |-> 0,
     events |-> <<>>,
     outcome |-> NoOutcome]

PgIdle == [query |-> <<>>, result |-> <<>>, count |-> 0, ran |-> FALSE,
           out |-> [raised |-> "none", response |-> None]]

\* The store the application starts on: empty, or holding an object.
InitStores ==
    {[i \in Ids |-> None],
     [i \in Ids |-> IF i = 1 THEN Obj([f \in FieldNames |-> 0]) ELSE None]}

Init ==
    /\ store \in InitStores
    /\ task = [r \in Tasks |-> IdleTask]
    /\ nreq = 0
    /\ ver = 0
    /\ updates = <<>>
    /\ created = [i \in Ids |-> None]
    /\ pg = PgIdle

\* The handlers a view class defines (lines 113, 120, 131, 139).
Handlers(view) ==
    IF view = "GenericListView" THEN {"GET", "POST"} ELSE {"GET", "PATCH"}

\* web.View._raise_allowed_methods: the methods of METH_ALL the view has a
\* handler for.
AllowedMethods(view) == {m \in METH_ALL : m \in Handlers(view)}

Log(t, evs) == [t EXCEPT !.events = @ \o evs]

\* _iter is left with an outcome; a response made is logged.
Done(t, evs, outcome) ==
    [t EXCEPT !.pc = "done",
              !.events = @ \o evs \o (IF outcome.status # 0 THEN <<"response">> ELSE <<>>),
              !.outcome = outcome]

\* Lines 48-49: an exception raised inside the try block.  One variant
\* catches nothing, the other catches every exception.
ExceptNothing(e) == Raised(e.exc, 0, {})

ExceptEverything(e) ==
    [via |-> "return", exc |-> e.exc, status |-> IF e.status = 0 THEN 500 ELSE e.status,
     body |-> e.body, allow |-> {}]

Except(e) ==
    IF e.exc \in BaseAPIException
    THEN [via |-> "return", exc |-> e.exc, status |-> e.status, body |-> e.body,
          allow |-> {}]
    ELSE Raised(e.exc, 0, {})

Fail(t, evs, e) == Done(t, evs, Except(e))

(***************************************************************************)
(* BaseView._iter, lines 40-44: a request arrives at a view and its method *)
(* is resolved.                                                            *)
(***************************************************************************)
\* One variant does not look for the handler, the other resolves every
\* method.
ResolvedAnyHandler(t) == t.method \in METH_ALL

ResolvedUnchecked(t) == TRUE

Resolved(t) == t.method \in METH_ALL /\ t.method \in Handlers(t.view)

Iter(r) ==
    /\ task[r].pc = "idle"
    /\ nreq < MaxRequests
    /\ \A q \in Tasks : q < r => task[q].pc # "idle"
    /\ \E view \in Views, method \in Methods :
          LET t == [IdleTask EXCEPT !.view = view, !.method = method]
          IN  task' = [task EXCEPT ![r] =
                 IF Resolved(t)
                 THEN [Log(t, <<"resolved">>) EXCEPT !.pc = "pre_process"]
                 ELSE Done(t, <<>>,
                           Raised("HTTPMethodNotAllowed", 405, AllowedMethods(view)))]
    /\ nreq' = nreq + 1
    /\ UNCHANGED <<store, ver, updates, created, pg>>

(***************************************************************************)
(* BaseView.pre_process_request, with the except clause of _iter around    *)
(* it (lines 16-37, 48-49).                                                *)
(***************************************************************************)
\* Lines 28-37, from the data handed to the schema.  The variant does not
\* look at result.errors.
ValidateIgnoringErrors(t, evs, data) ==
    LET result == Load(data)
    IN  [Log(t, evs \o <<"load", "attach">>) EXCEPT
              !.validated_data = [set |-> TRUE, data |-> result.data],
              !.pc = "handler"]

Validate(t, evs, data) ==
    LET result == Load(data)
    IN  IF DOMAIN result.errors # {}
        THEN Fail([t EXCEPT !.loaded = data], evs \o <<"load">>,
                  APIException([k |-> "error", fieldErrors |-> result.errors,
                                details |-> "Validation failed"], 400))
        ELSE [Log(t, evs \o <<"load", "attach">>) EXCEPT
                  !.loaded = data,
                  !.validated_data = [set |-> TRUE, data |-> result.data],
                  !.pc = "handler"]

\* Lines 18-25, from the body text read.  One variant takes a body that
\* does not parse for the empty object, the other refuses every value that
\* is no object.
ParseBodyLenient(t, text) ==
    LET t1 == [t EXCEPT !.body = [read |-> TRUE, text |-> text]]
    IN  IF text # ""
        THEN IF json_loads(text).ok
             THEN Validate(t1, <<"text", "json_loads">>, json_loads(text).value)
             ELSE Validate(t1, <<"text", "json_loads">>, EmptyDict)
        ELSE Validate(t1, <<"text">>, EmptyDict)

ParseBodyObjectsOnly(t, text) ==
    LET t1 == [t EXCEPT !.body = [read |-> TRUE, text |-> text]]
    IN  IF text # ""
        THEN IF json_loads(text).ok /\ json_loads(text).value.k = "dict"
             THEN Validate(t1, <<"text", "json_loads">>, json_loads(text).value)
             ELSE Fail(t1, <<"text", "json_loads">>,
                       ProcessingError("Data parsing error, expected json"))
        ELSE Validate(t1, <<"text">>, EmptyDict)

ParseBody(t, text) ==
    LET t1 == [t EXCEPT !.body = [read |-> TRUE, text |-> text]]
    IN  IF text # ""
        THEN IF json_loads(text).ok
             THEN Validate(t1, <<"text", "json_loads">>, json_loads(text).value)
             ELSE Fail(t1, <<"text", "json_loads">>,
                       ProcessingError("Data parsing error, expected json"))
        ELSE Validate(t1, <<"text">>, EmptyDict)

PreProcess(r) ==
    /\ task[r].pc = "pre_process"
    /\ IF task[r].method \in BodyMethods
       THEN \E text \in Bodies : task' = [task EXCEPT ![r] = ParseBody(task[r], text)]
       ELSE \E md \in Queries :
               task' = [task EXCEPT ![r] =
                   Validate([task[r] EXCEPT !.query = [read |-> TRUE, md |-> md]],
                            <<"query">>, [k |-> "multidict", md |-> md])]
    /\ UNCHANGED <<store, nreq, ver, updates, created, pg>>

(***************************************************************************)
(* GenericListView.post (lines 113-118).                                   *)
(***************************************************************************)
\* self.validated_data, as the handlers read it (lines 114, 121, 122, 144):
\* the attribute line 37 set on the view object of this request.  The
\* variant keeps the attribute in one place for all requests and reads
\* what another request in flight has put there.
SharedValidatedData(t) ==
    LET others == {q \in Tasks : /\ task[q].validated_data.set
                                 /\ task[q].pc # "done"
                                 /\ task[q].validated_data.data # t.validated_data.data}
    IN  IF others = {} THEN t.validated_data.data
        ELSE task[CHOOSE q \in others : TRUE].validated_data.data

SelfValidatedData(t) == t.validated_data.data

\* self.model(self.validated_data): an instance not yet saved has id 0.
Model(data) == [id |-> 0, fields |-> data]

PostCreate(r) ==
    /\ task[r].pc = "handler"
    /\ task[r].view = "GenericListView" /\ task[r].method = "POST"
    /\ task' = [task EXCEPT ![r] =
          [Log(task[r], <<"handler", "create", "fetch_related">>) EXCEPT
               !.instance = Model(SelfValidatedData(task[r])),
               !.pc = "post_save"]]
    /\ UNCHANGED <<store, nreq, ver, updates, created, pg>>

\* Lines 117-118: the response is the dump of the saved instance.  The
\* variant dumps the instance as it was before it was saved.
PostResponseUnsaved(t, saved) == Returned(200, dump(t.instance))

PostResponse(t, saved) == Returned(200, dump(saved.instance))

PostSave(r) ==
    /\ task[r].pc = "post_save"
    /\ LET saved == save(store, task[r].instance)
           response == PostResponse(task[r], saved)
       IN  /\ store' = saved.st
           /\ task' = [task EXCEPT ![r] =
                 Done([task[r] EXCEPT !.instance = saved.instance],
                      <<"save", "dump">>, response)]
           /\ created' = [created EXCEPT ![saved.instance.id] = response.body]
    /\ ver' = ver + 1
    /\ updates' = <<>>
    /\ UNCHANGED <<nreq, pg>>

(***************************************************************************)
(* GenericListView.get (lines 120-125).                                    *)
(***************************************************************************)
\* Lines 121-122: both calls are given the validated data as filters.  The
\* variant counts without them.
ListCountAll(st, t) == get_count(st, <<>>)

ListCount(st, t) == get_count(st, SelfValidatedData(t))

ListGetList(r) ==
    /\ task[r].pc = "handler"
    /\ task[r].view = "GenericListView" /\ task[r].method = "GET"
    /\ task' = [task EXCEPT ![r] =
          [Log(task[r], <<"handler", "get_list">>) EXCEPT
               !.items = get_list(store, SelfValidatedData(task[r])),
               !.saw = ver,
               !.pc = "list_count"]]
    /\ UNCHANGED <<store, nreq, ver, updates, created, pg>>

ListGetCount(r) ==
    /\ task[r].pc = "list_count"
    /\ LET instance_count == ListCount(store, task[r])
           serialized_response == [i \in 1..Len(task[r].items) |-> dump(task[r].items[i])]
           paginated == paginate_result(task[r].query.md, serialized_response,
                                        instance_count)
           t == [task[r] EXCEPT !.between = ver - task[r].saw]
       IN  task' = [task EXCEPT ![r] =
              IF paginated.raised # "none"
              THEN Fail(t, <<"get_count", "dump">>, ValueError)
              ELSE Done(t, <<"get_count", "dump">>,
                        Returned(200, paginated.response))]
    /\ UNCHANGED <<store, nreq, ver, updates, created, pg>>

(***************************************************************************)
(* GenericDetailView.get (lines 131-137).                                  *)
(***************************************************************************)
\* The ids a path may name: each is absent from the store until created.
PathIds == 1..MaxRequests

\* The instance of a stored object.
Instance(id, obj) == [id |-> id, fields |-> obj.f]

DetailGet(r) ==
    /\ task[r].pc = "handler"
    /\ task[r].view = "GenericDetailView" /\ task[r].method = "GET"
    /\ \E object_id \in PathIds :
          LET found == get_by_id(store, object_id)
              t == [task[r] EXCEPT !.id = object_id,
                                   !.fetched = [done |-> TRUE, obj |-> found]]
          IN  task' = [task EXCEPT ![r] =
                 IF found = None
                 THEN Fail(t, <<"handler", "get_by_id">>, NotFound)
                 ELSE Done([t EXCEPT !.instance = Instance(object_id, found)],
                           <<"handler", "get_by_id", "dump">>,
                           Returned(200, dump(Instance(object_id, found))))]
    /\ UNCHANGED <<store, nreq, ver, updates, created, pg>>

(***************************************************************************)
(* GenericDetailView.patch (lines 139-148).                                *)
(***************************************************************************)
\* Lines 144-145: every validated field is set on the instance.  The
\* variant adds the value to the one the field holds.
ApplyFieldsAdding(instance, data) ==
    [instance EXCEPT !.fields =
        [f \in DOMAIN @ \cup DOMAIN data |->
            IF f \in DOMAIN data
            THEN (IF f \in DOMAIN @ THEN @[f] + data[f] ELSE data[f])
            ELSE @[f]]]

ApplyFields(instance, data) ==
    [instance EXCEPT !.fields =
        [f \in DOMAIN @ \cup DOMAIN data |-> IF f \in DOMAIN data THEN data[f] ELSE @[f]]]

\* Lines 140-145, from the object fetched.  The variant updates a new
\* object when none was found.
PatchFoundOrNew(t, object_id, found) ==
    [Log(t, <<"handler", "get_by_id", "setattr">>) EXCEPT
         !.instance = ApplyFields(Instance(object_id,
                                           IF found = None THEN Obj(<<>>) ELSE found),
                                  t.validated_data.data),
         !.pc = "patch_save"]

PatchFound(t, object_id, found) ==
    IF found = None
    THEN Fail(t, <<"handler", "get_by_id">>, NotFound)
    ELSE [Log(t, <<"handler", "get_by_id", "setattr">>) EXCEPT
              !.instance = ApplyFields(Instance(object_id, found), SelfValidatedData(t)),
              !.pc = "patch_save"]

PatchFetch(r) ==
    /\ task[r].pc = "handler"
    /\ task[r].view = "GenericDetailView" /\ task[r].method = "PATCH"
    /\ \E object_id \in PathIds :
          task' = [task EXCEPT ![r] =
              PatchFound([task[r] EXCEPT
                              !.id = object_id, !.saw = ver,
                              !.fetched = [done |-> TRUE,
                                           obj |-> get_by_id(store, object_id)]],
                         object_id, get_by_id(store, object_id))]
    /\ UNCHANGED <<store, nreq, ver, updates, created, pg>>

PatchSave(r) ==
    /\ task[r].pc = "patch_save"
    /\ LET saved == save(store, task[r].instance)
           response == Returned(200, dump(saved.instance))
           update == [id |-> task[r].id, data |-> task[r].validated_data.data,
                      before |-> store[task[r].id], after |-> saved.st[task[r].id],
                      response |-> response, ver |-> ver + 1]
       IN  /\ store' = saved.st
           /\ task' = [task EXCEPT ![r] =
                 Done(task[r], <<"save", "dump">>, response)]
           /\ updates' = IF /\ updates # <<>>
                            /\ updates[Len(updates)].ver = ver
                            /\ task[r].saw = ver
                         THEN <<updates[Len(updates)], update>>
                         ELSE <<update>>
    /\ ver' = ver + 1
    /\ created' = [created EXCEPT ![task[r].id] = None]
    /\ UNCHANGED <<nreq, pg>>

(***************************************************************************)
(* The response (or the exception) has left _iter; the task is free.       *)
(***************************************************************************)
Finish(r) ==
    /\ task[r].pc = "done"
    /\ task' = [task EXCEPT ![r] = IdleTask]
    /\ UNCHANGED <<store, nreq, ver, updates, created, pg>>

Next ==
    \E r \in Tasks :
        \/ Iter(r)
        \/ PreProcess(r)
        \/ PostCreate(r)
        \/ PostSave(r)
        \/ ListGetList(r)
        \/ ListGetCount(r)
        \/ DetailGet(r)
        \/ PatchFetch(r)
        \/ PatchSave(r)
        \/ Finish(r)

Spec == Init /\ [][Next]_vars

(***************************************************************************)
(* SpecPaginate: paginate_result on a query, a result and a count.         *)
(***************************************************************************)
PageTexts == {IntStr(n) : n \in (0 - 1)..MaxPage} \cup {<<"x">>}

PageSizeTexts == {IntStr(n) : n \in 0..MaxPageSize} \cup {<<"1", "0">>}

\* The queries: page and page_size given or not, alone, after a filter, or
\* with the page key given twice.
PgQueries ==
    LET Pages == {<<>>} \cup {<< <<"page", StrV(p)>> >> : p \in PageTexts}
        Sizes == {<<>>} \cup {<< <<"page_size", StrV(z)>> >> : z \in PageSizeTexts}
        Filter == << <<"a", StrV(<<"1">>)>> >>
    IN  {p \o z : p \in Pages, z \in Sizes}
        \cup {Filter \o z \o p : p \in Pages, z \in Sizes}
        \cup {p \o Filter \o p : p \in Pages \ {<<>>}}

PgResults == {<<>>, <<[id |-> 1, fields |-> <<>>], [id |-> 2, fields |-> <<>>]>>}

InitPaginate ==
    /\ store = [i \in Ids |-> None]
    /\ task = [r \in Tasks |-> IdleTask]
    /\ nreq = 0
    /\ ver = 0
    /\ updates = <<>>
    /\ created = [i \in Ids |-> None]
    /\ \E q \in PgQueries, res \in PgResults, c \in 0..MaxCount :
          pg = [PgIdle EXCEPT !.query = q, !.result = res, !.count = c]

Paginate ==
    /\ ~pg.ran
    /\ pg' = [pg EXCEPT !.ran = TRUE,
                        !.out = paginate_result(pg.query, pg.result, pg.count)]
    /\ UNCHANGED <<store, task, nreq, ver, updates, created>>

NextPaginate == Paginate

SpecPaginate == InitPaginate /\ [][NextPaginate]_vars

(***************************************************************************)
(* Properties of paginate_result (SpecPaginate).                           *)
(***************************************************************************)
\* paginate_result has run and returned an envelope.
PgReturned == pg.ran /\ pg.out.raised = "none"

\* The page and the page size the request asks for.
PgPage == ParseInt(MDGet(pg.query, "page", IntV(1))).n

PgPageSize == ParseInt(MDGet(pg.query, "page_size", IntV(10))).n

\* The requested page lies beyond the last page that has data.
PgBeyond == PgPage > 1 /\ PgPageSize * (PgPage - 1) > pg.count

PgPrevious == pg.out.response.previous

PgNext == pg.out.response.next

C2_Next ==
    (PgReturned /\ PgPage >= 1 /\ PgPageSize >= 1)
        => /\ (PgNext # None) <=> (PgPage * PgPageSize < pg.count)
           /\ PgNext # None => LinkPage(PgNext) = PgPage + 1

\* A next link made after a previous link was made from the same parameters.
C2_Witness ==
    /\ PgReturned /\ PgPage > 1 /\ PgPageSize >= 1
    /\ PgNext # None /\ PgPrevious # None
    /\ LinkPage(PgNext) = PgPage + 1

\* The same page and count without a next link: the page ends exactly at
\* the count.
C2_WitnessLast ==
    PgReturned /\ PgPage >= 1 /\ PgPageSize >= 1
    /\ PgPage * PgPageSize = pg.count /\ pg.count > 0 /\ PgNext = None

\* C3: when the requested page lies beyond the last page that has data, the
\* previous link targets a page that is not empty: its target t satisfies
\* (t-1)*page_size < count.  Stated for count >= 1, where a page that is not
\* empty exists (with count = 0 every page is empty).
C3_PreviousNotEmpty ==
    (PgReturned /\ PgPageSize >= 1 /\ PgBeyond /\ pg.count >= 1)
        => (LinkPage(PgPrevious) - 1) * PgPageSize < pg.count

(***************************************************************************)
(* Properties of the pipeline (Spec).                                      *)
(***************************************************************************)
Has(t, e) == \E i \in 1..Len(t.events) : t.events[i] = e

Count(t, e) == Cardinality({i \in 1..Len(t.events) : t.events[i] = e})

\* The calls into the domain model; save is the only one that writes.
DomainEvents == {"create", "fetch_related", "save", "get_by_id", "get_list", "get_count"}

NoDomainCall(t) == \A e \in DomainEvents : ~Has(t, e)

\* The body read is not empty and json.loads rejects it.
MalformedBody(t) == t.body.read /\ t.body.text # "" /\ ~json_loads(t.body.text).ok

\* The body read is valid JSON that is not an object.
NonObjectBody(t) ==
    /\ t.body.read /\ t.body.text # ""
    /\ json_loads(t.body.text).ok
    /\ json_loads(t.body.text).value.k # "dict"

ProcessingErrorResponse ==
    [via |-> "return", exc |-> "ProcessingError", status |-> 400,
     body |-> [k |-> "error", details |-> "Data parsing error, expected json"],
     allow |-> {}]

\* C4, as stated: a body-carrying request whose non-empty body is valid JSON
\* but not a JSON object fails with ProcessingError 'Data parsing error,
\* expected json' before schema validation is attempted.
C4_NonObjectAsStated ==
    \A r \in Tasks :
        (task[r].method \in BodyMethods /\ NonObjectBody(task[r]))
            => /\ task[r].outcome = ProcessingErrorResponse
               /\ ~Has(task[r], "load")

\* C4, amended: for such a body json.loads succeeds and no ProcessingError
\* is raised; the parsed value is handed to the schema, whose verdict is
\* the outcome: when the schema rejects it, the 400 'Validation failed'
\* response.
C4_NonObject ==
    \A r \in Tasks :
        (task[r].method \in BodyMethods /\ NonObjectBody(task[r]))
            => /\ Has(task[r], "load")
               /\ task[r].outcome.exc # "ProcessingError"
               /\ DOMAIN Load(json_loads(task[r].body.text).value).errors # {}
                     => /\ task[r].pc = "done"
                        /\ task[r].outcome.exc = "APIException"
                        /\ task[r].outcome.status = 400
                        /\ task[r].outcome.body.details = "Validation failed"

C4_Witness ==
    \E r \in Tasks :
        /\ task[r].method = "POST" /\ task[r].body.text = "[1]" /\ NonObjectBody(task[r])
        /\ task[r].pc = "done" /\ Has(task[r], "load")
        /\ task[r].outcome.body.details = "Validation failed"

\* C5: a request with a body-carrying method whose non-empty body is not
\* parseable as JSON gets the ProcessingError response (400, 'Data parsing
\* error, expected json'); the schema is never loaded, the handler never
\* invoked, no domain-model operation performed, the store not written.
C5_Malformed ==
    \A r \in Tasks :
        (task[r].method \in BodyMethods /\ MalformedBody(task[r]))
            => /\ task[r].pc = "done"
               /\ task[r].outcome = ProcessingErrorResponse
               /\ ~Has(task[r], "load")
               /\ ~task[r].validated_data.set
               /\ ~Has(task[r], "handler")
               /\ NoDomainCall(task[r])

C5_Witness ==
    \E r \in Tasks :
        /\ task[r].method = "POST" /\ MalformedBody(task[r])
        /\ task[r].outcome.status = 400

\* The data a task handed to the schema.
DataLoaded(t) ==
    IF t.body.read
    THEN (IF t.body.text = "" THEN EmptyDict ELSE json_loads(t.body.text).value)
    ELSE [k |-> "multidict", md |-> t.query.md]

SchemaRejected(t) == Has(t, "load") /\ DOMAIN Load(DataLoaded(t)).errors # {}

\* C6: the handler is invoked only after the schema validation of the
\* request has succeeded; when the schema reports errors the outcome is the
\* 400 response with fieldErrors and details 'Validation failed', validated
\* data is not attached, the handler is never invoked, and no domain-model
\* call or store write occurs.
C6_ValidateFirst ==
    \A r \in Tasks :
        /\ \A i \in 1..Len(task[r].events) :
              task[r].events[i] = "handler"
                 => /\ \E j \in 1..(i - 1) : task[r].events[j] = "load"
                    /\ \E j \in 1..(i - 1) : task[r].events[j] = "attach"
                    /\ task[r].validated_data.set
                    /\ DOMAIN Load(DataLoaded(task[r])).errors = {}
                    /\ task[r].validated_data.data = Load(DataLoaded(task[r])).data
        /\ SchemaRejected(task[r])
              => /\ task[r].pc = "done"
                 /\ task[r].outcome =
                       [via |-> "return", exc |-> "APIException", status |-> 400,
                        body |-> [k |-> "error",
                                  fieldErrors |-> Load(DataLoaded(task[r])).errors,
                                  details |-> "Validation failed"],
                        allow |-> {}]
                 /\ ~task[r].validated_data.set
                 /\ ~Has(task[r], "handler")
                 /\ NoDomainCall(task[r])

\* A query and a body the schema rejects, and a handler that ran.
C6_Witness ==
    \E r, q \in Tasks :
        /\ SchemaRejected(task[r]) /\ task[r].method = "GET"
        /\ task[r].outcome.status = 400
        /\ Has(task[q], "handler") /\ Has(task[q], "save")

\* C7: a request whose method is not a recognized HTTP method, or has no
\* handler on the view, ends in MethodNotAllowed (405) whose allowed methods
\* are exactly those the view has a handler for: GET and POST for
\* GenericListView, GET and PATCH for GenericDetailView.
C7_MethodNotAllowed ==
    \A r \in Tasks :
        (/\ task[r].pc # "idle"
         /\ \/ task[r].method \notin METH_ALL
            \/ task[r].view = "GenericListView" /\ task[r].method \notin {"GET", "POST"}
            \/ task[r].view = "GenericDetailView" /\ task[r].method \notin {"GET", "PATCH"})
            => /\ task[r].pc = "done"
               /\ task[r].outcome.exc = "HTTPMethodNotAllowed"
               /\ task[r].outcome.status = 405
               /\ task[r].outcome.allow =
                     IF task[r].view = "GenericListView"
                     THEN {"GET", "POST"} ELSE {"GET", "PATCH"}
               /\ task[r].events = <<"response">>

\* DELETE on the list view, and a method that is no HTTP method at all.
C7_Witness ==
    \E r, q \in Tasks :
        /\ task[r].view = "GenericListView" /\ task[r].method = "DELETE"
        /\ task[r].outcome.status = 405 /\ task[r].outcome.allow = {"GET", "POST"}
        /\ task[q].method = "PROPFIND" /\ task[q].outcome.status = 405

\* C8, as stated: in every run of _iter validation runs at most once, the
\* handler is invoked at most once, and the run ends with exactly one
\* response.
C8_OneResponseAsStated ==
    \A r \in Tasks :
        /\ Count(task[r], "load") <= 1
        /\ Count(task[r], "handler") <= 1
        /\ task[r].pc = "done" => Count(task[r], "response") = 1

\* C8, amended: validation runs at most once, the handler is invoked at
\* most once and at most one response is made; the run ends with exactly
\* one response unless an error that is no API exception (nor
\* MethodNotAllowed) leaves _iter, and then with none.
C8_OneResponse ==
    \A r \in Tasks :
        /\ Count(task[r], "load") <= 1
        /\ Count(task[r], "handler") <= 1
        /\ Count(task[r], "response") <= 1
        /\ task[r].pc # "done" => Count(task[r], "response") = 0
        /\ task[r].pc = "done"
              => IF /\ task[r].outcome.via = "raise"
                    /\ task[r].outcome.exc \notin
                          {"APIException", "NotFound", "ProcessingError",
                           "HTTPMethodNotAllowed"}
                 THEN Count(task[r], "response") = 0 /\ task[r].outcome.status = 0
                 ELSE Count(task[r], "response") = 1 /\ task[r].outcome.status # 0

\* A list request whose page is no integer: the ValueError of
\* paginate_result leaves _iter after the handler ran, with no response.
C8_Witness ==
    \E r \in Tasks :
        /\ task[r].pc = "done" /\ task[r].outcome.exc = "ValueError"
        /\ Count(task[r], "load") = 1 /\ Count(task[r], "handler") = 1
        /\ Count(task[r], "response") = 0

\* C9: retrieve and update of an id absent from the store end in the
\* NotFound (404) response; the update sets no field and never saves.
C9_NotFound ==
    \A r \in Tasks :
        (/\ task[r].view = "GenericDetailView"
         /\ task[r].fetched.done /\ task[r].fetched.obj = None)
            => /\ task[r].pc = "done"
               /\ task[r].outcome =
                     [via |-> "return", exc |-> "NotFound", status |-> 404,
                      body |-> None, allow |-> {}]
               /\ ~Has(task[r], "setattr")
               /\ ~Has(task[r], "save")
               /\ ~Has(task[r], "dump")

\* An update, with fields to set, of an id the store does not hold.
C9_Witness ==
    \E r \in Tasks :
        /\ task[r].method = "PATCH" /\ task[r].fetched.done
        /\ task[r].fetched.obj = None /\ task[r].id \notin Present(store)
        /\ task[r].validated_data.data # <<>>
        /\ task[r].outcome.status = 404

\* C10: two updates of the same id with the same validated payload, made in
\* succession with no other write in between, leave the same stored object
\* and give the same serialized response.
C10_UpdateIdempotent ==
    (/\ Len(updates) = 2
     /\ updates[1].id = updates[2].id
     /\ updates[1].data = updates[2].data)
        => /\ updates[2].after = updates[1].after
           /\ updates[2].response = updates[1].response
           /\ store[updates[2].id] = updates[1].after

\* The first of the two updates changed the object.
C10_Witness ==
    /\ Len(updates) = 2
    /\ updates[1].id = updates[2].id
    /\ updates[1].data = updates[2].data
    /\ updates[1].data # <<>>
    /\ updates[1].before # updates[1].after

\* C11: after a successful create, a retrieve of the id of the created
\* object, with no other write to that object in between, returns a
\* serialized object equal to the body of the create response.
C11_RoundTrip ==
    \A r \in Tasks :
        (/\ task[r].view = "GenericDetailView" /\ task[r].method = "GET"
         /\ task[r].pc = "done" /\ task[r].outcome.status = 200
         /\ created[task[r].id] # None)
            => task[r].outcome.body = created[task[r].id]

\* A create with fields, then the retrieve of the id it was given.
C11_Witness ==
    \E r \in Tasks :
        /\ task[r].view = "GenericDetailView" /\ task[r].method = "GET"
        /\ task[r].pc = "done" /\ task[r].outcome.status = 200
        /\ created[task[r].id] # None
        /\ task[r].outcome.body.id = task[r].id
        /\ task[r].outcome.body.fields # <<>>

\* C12: for every count >= 0 and page_size >= 1, the previous link of the
\* envelope is non-null exactly when page > 1.
C12_PreviousIff ==
    (PgReturned /\ PgPageSize >= 1 /\ pg.count >= 0)
        => ((PgPrevious # None) <=> (PgPage > 1))

\* Both sides of the equivalence: a first page without a previous link is
\* the case of C12_WitnessFirst, a later page with one is this case.
C12_Witness ==
    /\ PgReturned /\ PgPageSize >= 1 /\ PgPage > 1 /\ PgPrevious # None

C12_WitnessFirst ==
    /\ PgReturned /\ PgPageSize >= 1 /\ PgPage = 1 /\ PgPrevious = None
    /\ pg.count > 0

\* The event a finished run logged last before its response, if any.
LastStage(t) ==
    LET evs == SelectSeq(t.events, LAMBDA e : e # "response")
    IN  IF evs = <<>> THEN "none" ELSE evs[Len(evs)]

\* C13, as stated: ProcessingError, ValidationError, NotFound and
\* MethodNotAllowed all end as the return value of _iter.
C13_ErrorsAsStated ==
    \A r \in Tasks :
        (/\ task[r].pc = "done"
         /\ task[r].outcome.exc \in {"ProcessingError", "APIException", "NotFound",
                                     "HTTPMethodNotAllowed"})
            => task[r].outcome.via = "return"

\* C13, amended: ProcessingError, the validation error and NotFound are
\* caught and their response (400, 400, 404) is the return value of _iter,
\* with no stage run after the one that raised; MethodNotAllowed is raised
\* before the try block and leaves _iter as the exception, which is itself
\* the 405 response; every other error leaves _iter with no response.
C13_Errors ==
    \A r \in Tasks :
        task[r].pc = "done" =>
            LET out == task[r].outcome
            IN  /\ out.exc = "ProcessingError"
                      => /\ out.via = "return" /\ out.status = 400
                         /\ LastStage(task[r]) = "json_loads"
                /\ out.exc = "APIException"
                      => /\ out.via = "return" /\ out.status = 400
                         /\ out.body.details = "Validation failed"
                         /\ LastStage(task[r]) = "load"
                /\ out.exc = "NotFound"
                      => /\ out.via = "return" /\ out.status = 404
                         /\ LastStage(task[r]) = "get_by_id"
                /\ out.exc = "HTTPMethodNotAllowed"
                      => /\ out.via = "raise" /\ out.status = 405
                         /\ LastStage(task[r]) = "none"
                /\ out.exc \notin {"none", "ProcessingError", "APIException",
                                   "NotFound", "HTTPMethodNotAllowed"}
                      => /\ out.via = "raise" /\ out.status = 0
                         /\ ~Has(task[r], "response")

\* One request ended in a caught NotFound that _iter returned, another in
\* a ValueError that left _iter.
C13_Witness ==
    \E r, q \in Tasks :
        /\ task[r].pc = "done" /\ task[r].outcome.exc = "NotFound"
        /\ task[r].outcome.via = "return"
        /\ task[q].pc = "done" /\ task[q].outcome.exc = "ValueError"
        /\ task[q].outcome.via = "raise"

\* The stage an event belongs to: 1 method resolution, 2 validation,
\* 3 handler, 4 response.
StageOf(e) ==
    CASE e = "resolved" -> 1
      [] e \in {"text", "json_loads", "query", "load", "attach"} -> 2
      [] e = "response" -> 4
      [] OTHER -> 3

\* C14: the stages occur in the order method resolution, validation,
\* handler, response, none entered before the one before it succeeded; a
\* request whose method has no bound handler ends in MethodNotAllowed with
\* neither body nor query read and nothing validated, never in
\* ProcessingError or a validation error.
C14_StageOrder ==
    \A r \in Tasks :
        LET t == task[r]
            n == Len(t.events)
        IN  /\ \A i, j \in 1..n : i < j => StageOf(t.events[i]) <= StageOf(t.events[j])
            /\ (\E i \in 1..n : StageOf(t.events[i]) = 2) => t.events[1] = "resolved"
            /\ (\E i \in 1..n : StageOf(t.events[i]) = 3)
                  => /\ Has(t, "attach") /\ t.validated_data.set
                     /\ \A i \in 1..n : t.events[i] = "handler" => t.events[i - 1] = "attach"
            /\ (t.pc = "done" /\ t.outcome.exc = "none")
                  => /\ Has(t, "handler") /\ t.events[n] = "response"
            /\ (t.pc # "idle" /\ t.method \notin Handlers(t.view))
                  => /\ t.pc = "done"
                     /\ t.outcome.exc = "HTTPMethodNotAllowed"
                     /\ t.outcome.status = 405
                     /\ ~t.body.read /\ ~t.query.read /\ ~t.validated_data.set
                     /\ t.events = <<"response">>

\* A DELETE, which would carry a body, on a view with no handler for it
\* ended in MethodNotAllowed, and another request went through the four
\* stages.
C14_Witness ==
    \E r, q \in Tasks :
        /\ task[r].pc = "done" /\ task[r].method = "DELETE"
        /\ task[r].outcome.exc = "HTTPMethodNotAllowed"
        /\ ~task[r].body.read
        /\ task[q].pc = "done" /\ task[q].outcome.exc = "none"
        /\ task[q].events[1] = "resolved"
        /\ Has(task[q], "attach") /\ Has(task[q], "handler")
        /\ Has(task[q], "response")

ListDone(t) ==
    /\ t.view = "GenericListView" /\ t.method = "GET"
    /\ t.pc = "done" /\ t.outcome.status = 200

\* C15: in the list handler the items and the count are fetched by two
\* separate calls, nothing making the pair atomic: the count of a list
\* response is the number of items fetched when no write came between the
\* two calls and is off by at most the number of writes that did; with a
\* create saved between them (C15_Witness) the two differ.
C15_CountRace ==
    \A r \in Tasks :
        ListDone(task[r]) =>
            LET body == task[r].outcome.body
                diff == body.count - Len(body.result)
            IN  /\ \E i, j \in 1..Len(task[r].events) :
                      /\ i < j
                      /\ task[r].events[i] = "get_list"
                      /\ task[r].events[j] = "get_count"
                /\ diff <= task[r].between
                /\ 0 - diff <= task[r].between

\* The race: a create was saved after the list handler fetched its items
\* and before it fetched the count, and the count of the response is not
\* the number of objects that matched when the items were fetched.
C15_Witness ==
    \E r, q \in Tasks :
        /\ ListDone(task[r])
        /\ task[r].between >= 1
        /\ task[r].outcome.body.count # Len(task[r].outcome.body.result)
        /\ task[q].view = "GenericListView" /\ task[q].method = "POST"
        /\ Has(task[q], "save")

\* What the schema makes of the input this request itself supplied.
OwnData(t) == Load(DataLoaded(t)).data

\* The data attached to a request, and what its handler made, created or
\* fetched with it, are those of its own input.
C16_UsesOwnData ==
    \A r \in Tasks :
        LET t == task[r]
        IN  /\ t.validated_data.set => t.validated_data.data = OwnData(t)
            /\ (t.method = "POST" /\ Has(t, "create")) => t.instance.fields = OwnData(t)
            /\ (t.method = "PATCH" /\ Has(t, "setattr"))
                  => \A f \in DOMAIN OwnData(t) :
                        f \in DOMAIN t.instance.fields
                        /\ t.instance.fields[f] = OwnData(t)[f]
            /\ (t.method = "GET" /\ Has(t, "get_list"))
                  => \A i \in 1..Len(t.items) :
                        \A f \in DOMAIN OwnData(t) : t.items[i].fields[f] = OwnData(t)[f]

\* A step of one request leaves the record of every other request as it
\* was, and the steps of the pipeline (method resolution, validation) leave
\* the store as it was.
C16_StepIsLocal ==
    \A r \in Tasks :
        task'[r] # task[r] =>
            /\ \A q \in Tasks \ {r} : task'[q] = task[q]
            /\ task[r].pc \in {"idle", "pre_process"} => store' = store

\* C16: under every interleaving of concurrent requests the validated data
\* a handler uses is the data validated from the input of its own request:
\* no handler reads validated data another request wrote, and the pipeline
\* writes no state shared between requests.
C16_OwnValidatedData == []C16_UsesOwnData /\ [][C16_StepIsLocal]_vars

\* Two requests in flight at once, validated to different data, each with
\* its handler past the point where it read the data.
C16_Witness ==
    \E r, q \in Tasks :
        /\ task[r].pc = "post_save" /\ task[q].pc = "patch_save"
        /\ task[r].validated_data.data # task[q].validated_data.data
        /\ task[r].instance.fields = task[r].validated_data.data
        /\ task[r].validated_data.data # <<>>

\* C17: the input handed to the schema is selected by the method: for
\* POST, PUT, PATCH and DELETE it is the parsed body, an empty body taken
\* for the empty object, and the query is not looked at; for every other
\* method it is the multimap of the query parameters and the body is never
\* read.
C17_InputByMethod ==
    \A r \in Tasks :
        LET t == task[r]
        IN  /\ Has(t, "load") =>
                IF t.method \in {"POST", "PUT", "PATCH", "DELETE"}
                THEN /\ t.body.read /\ ~t.query.read
                     /\ t.loaded = IF t.body.text = "" THEN [k |-> "dict", d |-> <<>>]
                                   ELSE json_loads(t.body.text).value
                ELSE /\ t.query.read /\ ~t.body.read
                     /\ t.loaded = [k |-> "multidict", md |-> t.query.md]
            /\ t.method \notin {"POST", "PUT", "PATCH", "DELETE"}
                  => ~t.body.read /\ ~Has(t, "text")
            /\ ~Has(t, "load") => t.loaded = None

\* An update with an empty body was validated as the empty object and a
\* list request as its query parameters.
C17_Witness ==
    \E r, q \in Tasks :
        /\ task[r].method = "PATCH" /\ Has(task[r], "load")
        /\ task[r].body.text = "" /\ task[r].loaded = [k |-> "dict", d |-> <<>>]
        /\ task[q].method = "GET" /\ Has(task[q], "load")
        /\ task[q].loaded.k = "multidict" /\ task[q].loaded.md # <<>>

\* A body that is not empty is handed over as json.loads parsed it.
C17_WitnessBody ==
    \E r \in Tasks :
        /\ task[r].method = "POST" /\ Has(task[r], "load")
        /\ task[r].body.text # "" /\ task[r].loaded = json_loads(task[r].body.text).value

\* C18: paginate_result neither slices nor alters what it is given: the
\* result of the envelope is the sequence of items it was given, in content
\* and order, also when that is longer than page_size, and the count of
\* the envelope is the count it was given.
C18_EnvelopeAsGiven ==
    PgReturned => /\ pg.out.response.result = pg.result
                  /\ pg.out.response.count = pg.count

\* Two items and a page_size of 1, with a count that is not the number of
\* items.
C18_Witness ==
    /\ PgReturned /\ PgPageSize = 1 /\ Len(pg.result) = 2
    /\ pg.out.response.result = pg.result
    /\ pg.count = 5 /\ pg.out.response.count = 5

\* The pairs of a query whose key is page.
PageKeys(query) == {i \in 1..Len(query) : query[i][1] = "page"}

\* The link holds the parameters of the request, each as the request gave
\* it and in its order, but for page, held once with the target.
CarriesRequest(link, target) ==
    /\ MDWithout(link.query, "page") = MDWithout(pg.query, "page")
    /\ Cardinality(PageKeys(link.query)) = 1
    /\ MDGet(link.query, "page", None) = StrV(IntStr(target))

\* C19: each link carries the query parameters of the request with only
\* the page key overridden by the target of that link: previous carries
\* its computed target, next carries page+1, and every other parameter
\* (page_size included) is in both links what it is in the request.
C19_LinkParams ==
    PgReturned =>
        /\ PgPrevious # None
              => CarriesRequest(PgPrevious, PreviousPage(PgPage, PgPageSize, pg.count))
        /\ PgNext # None => CarriesRequest(PgNext, PgPage + 1)
        /\ (PgPrevious # None /\ PgNext # None)
              => MDWithout(PgPrevious.query, "page") = MDWithout(PgNext.query, "page")

\* Both links made for a request with a filter and a page_size, their
\* targets different.
C19_Witness ==
    /\ PgReturned /\ PgPrevious # None /\ PgNext # None
    /\ LinkPage(PgPrevious) = PgPage - 1 /\ LinkPage(PgNext) = PgPage + 1
    /\ Len(MDWithout(pg.query, "page")) = 2
    /\ MDGet(PgNext.query, "page_size", None) = MDGet(pg.query, "page_size", None)

\* C20: for every page >= 2, page_size >= 1 and count >= 0 the target t of
\* the previous link satisfies 1 <= t <= page-1, and whenever the next link
\* is non-null the previous link targets exactly page-1.
C20_PreviousRange ==
    (PgReturned /\ PgPage >= 2 /\ PgPageSize >= 1 /\ pg.count >= 0)
        => /\ PgPrevious # None
           /\ 1 <= LinkPage(PgPrevious)
           /\ LinkPage(PgPrevious) <= PgPage - 1
           /\ PgNext # None => LinkPage(PgPrevious) = PgPage - 1

\* A clamped previous link, strictly before page-1.
C20_Witness ==
    /\ PgReturned /\ PgPage >= 2 /\ PgPageSize >= 1 /\ PgBeyond /\ pg.count > 0
    /\ LinkPage(PgPrevious) < PgPage - 1

\* A next link, and the previous link at page-1.
C20_WitnessNext ==
    /\ PgReturned /\ PgPage >= 2 /\ PgPageSize >= 1 /\ PgNext # None
    /\ LinkPage(PgPrevious) = PgPage - 1

=============================================================================
